---- MODULE Spec2Model ----
(***************************************************************************)
(* Autoregressive filling loop of sat/generation/autoregressive_sampling.py *)
(* (update_mems, filling_sequence, stream_filling_sequence) as a state      *)
(* machine.                                                                 *)
(*                                                                          *)
(* Tensors are modelled by their shape and by the identity of their columns *)
(* along the length axis:                                                   *)
(*   - a token batch [batch, length] is a sequence of rows, each row a      *)
(*     sequence of token ids;                                               *)
(*   - a memory [num_layers, batch, memory_length, 2d] is a record          *)
(*     [none, layers, batch, cols]; cols names, oldest first, the columns   *)
(*     held (every layer and every batch row holds the same columns, so one *)
(*     sequence of column names stands for all of them);                    *)
(*   - hiddens, a python list (num_layers) of [batch, query_length, 2d], is *)
(*     the same record; layers = 0 is the empty list, none is None.         *)
(***************************************************************************)
EXTENDS Integers, Sequences, FiniteSets, TLC

VARIABLES
    seq,                \* filling loop: the seq argument (-1 = to be generated)
    batch_size,         \* filling loop: the batch_size argument
    strategy,           \* filling loop: the strategy argument
    max_memory_length,  \* the max_memory_length argument
    mems_arg,           \* filling loop: the mems argument
    num_layers,         \* number of per-layer outputs the model returns
    fs,                 \* the frame of one filling_sequence call
    st,                 \* the frame of one stream_filling_sequence generator
    consumer,           \* the caller iterating the generator
    mc,                 \* a caller applying update_mems repeatedly
    glm                 \* a call of get_masks_and_position_ids_glm

vars == <<seq, batch_size, strategy, max_memory_length, mems_arg, num_layers,
          fs, st, consumer, mc, glm>>

----------------------------------------------------------------------------
(* Bounds of the model *)

\* largest max_memory_length of the update_mems chain
MaxMem == 8
\* largest query_length of one chunk of the update_mems chain
MaxChunk == 4
\* largest number of update_mems calls in one chain
MaxCalls == 4
\* largest number of layers
MaxLayers == 1
\* largest batch of the update_mems chain
MaxBatch == 2

----------------------------------------------------------------------------
(* Python and torch primitives *)

Min(a, b) == IF a <= b THEN a ELSE b

Max(a, b) == IF a >= b THEN a ELSE b

\* s[start:] of python on a sequence of length Len(s): a negative start counts
\* from the end, and is clipped to 0; a start beyond the end gives the empty
\* slice. Note -0 = 0: s[-0:] is all of s.
PySliceFrom(s, start) ==
    LET n == Len(s)
        b == IF start < 0 THEN Max(n + start, 0) ELSE Min(start, n)
    IN  SubSeq(s, b + 1, n)

\* s[start:stop] of python, both clipped the same way
PySlice(s, start, stop) ==
    LET n == Len(s)
        b == IF start < 0 THEN Max(n + start, 0) ELSE Min(start, n)
        e == IF stop < 0 THEN Max(n + stop, 0) ELSE Min(stop, n)
    IN  SubSeq(s, b + 1, e)

\* the value None, for a memory or for hiddens
NoneT == [none |-> TRUE, layers |-> 0, batch |-> 0, cols |-> <<>>]

Tensor(l, b, c) == [none |-> FALSE, layers |-> l, batch |-> b, cols |-> c]

Returned(v) == [raised |-> "", value |-> v]

Raised(e) == [raised |-> e, value |-> NoneT]

----------------------------------------------------------------------------
(* update_mems *)

\* mems.expand(-1, hiddens.shape[1], -1, -1): only a dimension of size 1 expands
ExpandOk(mems, hiddens) == mems.batch = 1

\* torch.cat(..., dim=2): every other dimension must agree
CatOk(mems, hiddens) == mems.layers = hiddens.layers /\ mems.batch = hiddens.batch

\* fault: the previous memory is not concatenated
update_mems_branches_NoCat(hiddens, mems, max_len) ==
    LET memory_length == IF mems.none THEN 0 ELSE Len(mems.cols)
        query_length == Len(hiddens.cols)
        new_memory_length == Min(max_len, memory_length + query_length)
    IN  Returned(Tensor(hiddens.layers, hiddens.batch,
                        PySliceFrom(hiddens.cols, -new_memory_length)))

update_mems_branches(hiddens, mems, max_len) ==
    LET memory_length == IF mems.none THEN 0 ELSE Len(mems.cols)
        query_length == Len(hiddens.cols)
        new_memory_length == Min(max_len, memory_length + query_length)
    IN  IF new_memory_length <= query_length
        THEN Returned(Tensor(hiddens.layers, hiddens.batch,
                             PySliceFrom(hiddens.cols, -new_memory_length)))
        ELSE LET expand == mems.batch < hiddens.batch
                 m2 == IF expand THEN [mems EXCEPT !.batch = hiddens.batch] ELSE mems
             IN  IF expand /\ ~ExpandOk(mems, hiddens) THEN Raised("RuntimeError")
                 ELSE IF ~CatOk(m2, hiddens) THEN Raised("RuntimeError")
                 ELSE Returned(Tensor(hiddens.layers, hiddens.batch,
                         PySliceFrom(m2.cols, -new_memory_length + query_length)
                             \o hiddens.cols))

update_mems(hiddens, mems, max_len) ==
    IF hiddens.none THEN Returned(NoneT)
    \* torch.stack of an empty list raises
    ELSE IF hiddens.layers = 0 THEN Raised("RuntimeError")
    ELSE update_mems_branches(hiddens, mems, max_len)

----------------------------------------------------------------------------
(* A caller applying update_mems any number of times, each result fed back *)
(* as the previous memory, starting from no memory.                        *)

\* columns are named by their place in the stream of all columns supplied
Chunk(total, q) == [i \in 1..q |-> total + i]

McInit == [mems |-> NoneT, prev |-> NoneT, hiddens |-> NoneT,
           ret |-> Returned(NoneT), total |-> 0, n |-> 0]

McIdle == [mems |-> NoneT, prev |-> NoneT, hiddens |-> NoneT,
           ret |-> Returned(NoneT), total |-> 0, n |-> -1]

McCall(h) ==
    LET r == update_mems(h, mc.mems, max_memory_length)
    IN  /\ mc.n >= 0 /\ mc.n < MaxCalls
        /\ mc.ret.raised = ""
        /\ mc' = [mems |-> IF r.raised = "" THEN r.value ELSE mc.mems,
                  prev |-> mc.mems,
                  hiddens |-> h,
                  ret |-> r,
                  total |-> mc.total + Len(h.cols),
                  n |-> mc.n + 1]
        /\ UNCHANGED <<seq, batch_size, strategy, max_memory_length, mems_arg,
                       num_layers, fs, st, consumer, glm>>

\* the batch of a new chunk: the loop's token batch never shrinks, and grows
\* only from one row
ChunkBatches == IF mc.mems.none THEN 1..MaxBatch
                ELSE {b \in 1..MaxBatch : b = mc.mems.batch \/ mc.mems.batch = 1}

\* update_mems on a list of num_layers activations of query_length q
McUpdate ==
    \E q \in 1..MaxChunk, b \in ChunkBatches :
        McCall(Tensor(num_layers, b, Chunk(mc.total, q)))

\* update_mems(None, mems, max_memory_length)
McUpdateNone == McCall(NoneT)

\* update_mems([], mems, max_memory_length)
McUpdateEmpty == McCall(Tensor(0, 0, <<>>))

----------------------------------------------------------------------------
(* The filling loop: inputs *)

\* longest seq
MaxSeqLen == 4
\* max_memory_length is drawn from 0..MaxMemLoop and the default
MaxMemLoop == 2
\* longest memory supplied by the caller
MaxInitMem == 2
\* the beam width of the beam-search strategy
NumBeams == 2

DefaultMaxMemoryLength == 100000

\* the sentinel of a position to be generated, and the provided token ids
Pending == -1

SeqVals == {Pending, 5, 7}

\* the two token ids the model ranks first and second
TokA == 8

TokB == 9

Other(t) == IF t = TokA THEN TokB ELSE TokA

Seqs == UNION {[1..n -> SeqVals] : n \in 0..MaxSeqLen}

\* BaseStrategy (no num_beams attribute) and BeamSearchStrategy
Strategies ==
    {[kind |-> "base", num_beams |-> 0, end_tokens |-> e] : e \in {{}, {TokB}}}
    \cup {[kind |-> "beam", num_beams |-> NumBeams, end_tokens |-> {TokB}]}

\* the memory of an earlier phase: the first m columns of the context
SuppliedMems ==
    {NoneT} \cup {Tensor(Max(num_layers, 1), 1, [i \in 1..m |-> i - 1]) :
                    m \in 1..MaxInitMem}

Last(s) == s[Len(s)]

AllProvided(s) == \A i \in 1..Len(s) : s[i] >= 0

----------------------------------------------------------------------------
(* The external collaborators: the model and the decoding strategy *)

\* The token the model ranks first after a row of input: a deterministic
\* function of what is forwarded to it.
ModelArgmax(row) == IF Last(row) = TokA THEN TokB ELSE TokA

\* model(input_ids, position_ids, attention_mask, mems, ...): logits for every
\* forwarded position of every row (kept: the first-ranked token at the last
\* position of each row, and the number of positions), and one mem_kv of the
\* forwarded columns per layer. first is the position of the first forwarded
\* column.
Model(input_ids, first) ==
    LET q == Len(input_ids[1])
    IN  [positions |-> q,
         last |-> [r \in 1..Len(input_ids) |->
                     IF q = 0 THEN Pending ELSE ModelArgmax(input_ids[r])],
         mem_kv |-> IF num_layers = 0 THEN Tensor(0, 0, <<>>)
                    ELSE Tensor(num_layers, Len(input_ids),
                                [i \in 1..q |-> first + i - 1])]

\* strategy.forward(logits, tokens, mems): one column is appended.
\*   base: every row takes the first-ranked token of its own logits;
\*   beam: the rows are rebuilt from the best row, which continues with the
\*         first-ranked token, the others with the second-ranked one; the
\*         memory is gathered to the rows kept.
\* is_done: base, every row ends with an end token; beam, the best row does.
StrategyForward(strat, logits, tokens, mems) ==
    LET n == Len(tokens)
        new == IF strat.kind = "beam"
               THEN [r \in 1..n |->
                       Append(tokens[1], (IF r = 1 THEN logits[1] ELSE Other(logits[1])))]
               ELSE [r \in 1..n |-> Append(tokens[r], logits[r])]
    IN  [tokens |-> new,
         mems |-> IF strat.kind = "beam" /\ ~mems.none
                  THEN [mems EXCEPT !.batch = n] ELSE mems,
         is_done |-> IF strat.kind = "beam" THEN Last(new[1]) \in strat.end_tokens
                     ELSE \A r \in 1..n : Last(new[r]) \in strat.end_tokens]

----------------------------------------------------------------------------
(* filling_sequence and stream_filling_sequence: the code they share *)

\* fault: batch_size is never raised to the beam width
AdjustBatchSize_Never(bs, strat) == bs

\* hasattr(strategy, 'num_beams') and batch_size < strategy.num_beams
AdjustBatchSize(bs, strat) ==
    IF strat.kind = "beam" /\ bs < strat.num_beams THEN strat.num_beams ELSE bs

\* context_length = 0; while seq[context_length] >= 0: context_length += 1
\* Indexing a tensor of length n at n raises IndexError.
RECURSIVE ScanContext(_, _)
ScanContext(s, c) ==
    IF c >= Len(s) THEN [raised |-> "IndexError", value |-> c]
    ELSE IF s[c + 1] >= 0 THEN ScanContext(s, c + 1)
    ELSE [raised |-> "", value |-> c]

\* fault: the assertion is dropped
AssertContext_Dropped(c) == TRUE

\* assert context_length > 0
AssertContext(c) == c > 0

\* get_masks_and_position_ids_default(seq)[0]: seq.unsqueeze(0)
Unsqueeze(s) == <<s>>

\* get_masks_and_position_ids_default(seq): the causal mask (row i attends to
\* columns 0..i) and the positions 0..len(seq)-1
get_masks_and_position_ids_default(s) ==
    [tokens |-> Unsqueeze(s),
     attention_mask |-> [i \in 1..Len(s) |-> [j \in 1..Len(s) |->
                            IF j <= i THEN 1 ELSE 0]],
     position_ids |-> [i \in 1..Len(s) |-> i - 1]]

\* the frame after the lines before the loop, or the error they raise
Setup(frame) ==
    LET scan == ScanContext(seq, 0)
        context_length == scan.value
    IN  IF scan.raised # ""
        THEN [frame EXCEPT !.pc = "error", !.err = scan.raised]
        ELSE IF ~AssertContext(context_length)
        THEN [frame EXCEPT !.pc = "error", !.err = "AssertionError"]
        ELSE [frame EXCEPT
                !.pc = "loop",
                !.batch_size = AdjustBatchSize(batch_size, strategy),
                !.context_length = context_length,
                !.tokens = [r \in 1..1 |->
                    SubSeq(get_masks_and_position_ids_default(seq).tokens[r],
                           1, context_length)],
                !.counter = context_length - 1,
                !.index = IF mems_arg.none THEN 0 ELSE Len(mems_arg.cols),
                !.mems = mems_arg]

\* fault: the loop stops one position early
LoopCond_StopsEarly(frame) == frame.counter < Len(seq) - 2

\* while counter < len(seq) - 1
LoopCond(frame) == frame.counter < Len(seq) - 1

\* seq[counter + 1] >= 0
NextProvided(frame) == seq[frame.counter + 2] >= 0

\* fault: the provided token is appended twice
AppendProvided_Twice(tokens, counter) ==
    [r \in 1..Len(tokens) |-> tokens[r] \o SubSeq(seq, counter + 2, counter + 2)
                                        \o SubSeq(seq, counter + 2, counter + 2)]

\* fault: the slice is taken one position to the left
AppendProvided_Previous(tokens, counter) ==
    [r \in 1..Len(tokens) |-> tokens[r] \o SubSeq(seq, counter + 1, counter + 1)]

\* torch.cat((tokens, seq[counter+1: counter+2].expand(tokens.shape[0], 1)), dim=1)
AppendProvided(tokens, counter) ==
    [r \in 1..Len(tokens) |-> tokens[r] \o SubSeq(seq, counter + 2, counter + 2)]

\* x.expand(batch_size, -1) on a tensor of n rows: n is 1 or batch_size
ExpandRowsOk(n, bs) == n = 1 \/ n = bs

ExpandRows(x, bs) == [r \in 1..bs |-> IF Len(x) = 1 THEN x[1] ELSE x[r]]

\* One forward of the loop: the model call on tokens[:, index:], update_mems,
\* the last-position logits and the token batch expanded to batch_size rows, and
\* strategy.forward. raised names the exception that ends it, if any.
Forward(frame) ==
    LET input_ids == [r \in 1..Len(frame.tokens) |->
                        PySliceFrom(frame.tokens[r], frame.index)]
        out == Model(input_ids, frame.index)
        um == update_mems(out.mem_kv, frame.mems, max_memory_length)
        ok_rows == ExpandRowsOk(Len(frame.tokens), frame.batch_size)
        sf == StrategyForward(strategy, ExpandRows(out.last, frame.batch_size),
                              ExpandRows(frame.tokens, frame.batch_size), um.value)
    IN  IF um.raised # "" THEN [raised |-> um.raised, tokens |-> frame.tokens,
                                mems |-> frame.mems, is_done |-> FALSE,
                                logits |-> <<>>, fed |-> Len(input_ids[1])]
        \* logits[:, -1] of logits for no position
        ELSE IF out.positions = 0
        THEN [raised |-> "IndexError", tokens |-> frame.tokens, mems |-> um.value,
              is_done |-> FALSE, logits |-> <<>>, fed |-> 0]
        ELSE IF ~ok_rows
        THEN [raised |-> "RuntimeError", tokens |-> frame.tokens, mems |-> um.value,
              is_done |-> FALSE, logits |-> <<>>, fed |-> Len(input_ids[1])]
        ELSE [raised |-> "", tokens |-> sf.tokens, mems |-> sf.mems,
              is_done |-> sf.is_done,
              logits |-> ExpandRows(out.last, frame.batch_size),
              fed |-> Len(input_ids[1])]

\* What one model invocation of the loop is handed: index and counter at the
\* call, the length of mems, the width of input_ids = tokens[:, index:], of
\* position_ids[..., index: counter+1] and of the rows and columns of
\* attention_mask[..., index: counter+1, :counter+1].
Invocation(frame) ==
    LET b == get_masks_and_position_ids_default(seq)
        rows == PySlice(b.attention_mask, frame.index, frame.counter + 1)
    IN  [index |-> frame.index,
         counter |-> frame.counter,
         memory_length |-> IF frame.mems.none THEN 0 ELSE Len(frame.mems.cols),
         input_width |-> Len(PySliceFrom(frame.tokens[1], frame.index)),
         position_width |-> Len(PySlice(b.position_ids, frame.index,
                                        frame.counter + 1)),
         mask_rows |-> Len(rows),
         mask_cols |-> Len(PySlice(b.attention_mask[1], 0, frame.counter + 1))]

\* the rows of the logits and of the token batch handed to strategy.forward
Handed(frame) ==
    [logits |-> Len(ExpandRows(Forward(frame).logits, frame.batch_size)),
     tokens |-> Len(ExpandRows(frame.tokens, frame.batch_size))]

\* the frame of a call not yet started
Frame0(pc0) ==
    [pc |-> pc0, err |-> "", batch_size |-> 0, context_length |-> 0,
     counter |-> 0, index |-> 0, tokens |-> <<>>, mems |-> NoneT,
     is_done |-> FALSE,
     calls |-> 0,          \* model invocations so far
     advances |-> 0,       \* strategy.forward calls so far
     appended |-> 0,       \* provided tokens appended so far
     yields |-> 0,         \* values yielded so far (generator only)
     finalize_calls |-> 0, \* strategy.finalize calls so far
     inv |-> <<>>,         \* the model invocations so far, see Invocation
     handed |-> <<>>,      \* what each strategy.forward was handed, see Handed
     final_tokens |-> <<>>, final_mems |-> NoneT]

----------------------------------------------------------------------------
(* filling_sequence *)

FsUnchanged == UNCHANGED <<seq, batch_size, strategy, max_memory_length,
                           mems_arg, num_layers, st, consumer, mc, glm>>

\* lines 70-87
FS_Setup ==
    /\ fs.pc = "start"
    /\ fs' = Setup(fs)
    /\ FsUnchanged

\* lines 93-101: the next position is provided
FS_Provided ==
    /\ fs.pc = "loop" /\ LoopCond(fs) /\ NextProvided(fs)
    /\ fs' = [fs EXCEPT !.tokens = AppendProvided(fs.tokens, fs.counter),
                        !.counter = fs.counter + 1,
                        !.appended = fs.appended + 1]
    /\ FsUnchanged

\* fault: strategy.is_done is not tested
FsForwardFrame_NoBreak(frame) ==
    LET f == Forward(frame)
    IN  IF f.raised # ""
        THEN [frame EXCEPT !.pc = "error", !.err = f.raised,
                           !.calls = frame.calls + 1,
                           !.inv = Append(frame.inv, Invocation(frame))]
        ELSE [frame EXCEPT !.pc = "loop",
                           !.calls = frame.calls + 1,
                           !.advances = frame.advances + 1,
                           !.inv = Append(frame.inv, Invocation(frame)),
                           !.handed = Append(frame.handed, Handed(frame)),
                           !.counter = frame.counter + 1,
                           !.index = frame.counter + 1,
                           !.tokens = f.tokens,
                           !.mems = f.mems,
                           !.is_done = f.is_done]

\* what lines 103-129 leave of the frame
FsForwardFrame(frame) ==
    LET f == Forward(frame)
    IN  IF f.raised # ""
        THEN [frame EXCEPT !.pc = "error", !.err = f.raised,
                           !.calls = frame.calls + 1,
                           !.inv = Append(frame.inv, Invocation(frame))]
        ELSE [frame EXCEPT !.pc = IF f.is_done THEN "break" ELSE "loop",
                           !.calls = frame.calls + 1,
                           !.advances = frame.advances + 1,
                           !.inv = Append(frame.inv, Invocation(frame)),
                           !.handed = Append(frame.handed, Handed(frame)),
                           !.counter = frame.counter + 1,
                           !.index = frame.counter + 1,
                           !.tokens = f.tokens,
                           !.mems = f.mems,
                           !.is_done = f.is_done]

\* lines 103-129: the next position is to be generated
FS_Forward ==
    /\ fs.pc = "loop" /\ LoopCond(fs) /\ ~NextProvided(fs)
    /\ fs' = FsForwardFrame(fs)
    /\ FsUnchanged

\* what line 130 leaves of the frame
FsFinalizeFrame(frame) ==
    [frame EXCEPT !.pc = "finalized",
                  !.finalize_calls = frame.finalize_calls + 1,
                  !.final_tokens = frame.tokens,
                  !.final_mems = frame.mems]

\* line 130, after the loop ended or broke
FS_Finalize ==
    /\ \/ fs.pc = "loop" /\ ~LoopCond(fs)
       \/ fs.pc = "break"
    /\ fs' = FsFinalizeFrame(fs)
    /\ FsUnchanged

FsTerminated == fs.pc \in {"finalized", "error"}

----------------------------------------------------------------------------
(* stream_filling_sequence: a generator, and the caller that iterates it.   *)
(* Nothing of the body runs before the first next(); next() runs the body   *)
(* to the next yield, to its return or to an exception. The two calls share *)
(* no state, so the generator is run after filling_sequence ended.          *)

StUnchanged == UNCHANGED <<seq, batch_size, strategy, max_memory_length,
                           mems_arg, num_layers, fs, mc, glm>>

Consumer0 == [pulls |-> 0, got |-> 0, tokens |-> <<>>, logits |-> <<>>,
              mems |-> NoneT]

\* next(filling_stream): the caller asks for the next value
Pull ==
    /\ FsTerminated
    /\ st.pc \in {"created", "suspended"}
    /\ st' = [st EXCEPT !.pc = IF st.pc = "created" THEN "start" ELSE "resumed"]
    /\ consumer' = [consumer EXCEPT !.pulls = consumer.pulls + 1]
    /\ StUnchanged

\* lines 163-179
ST_Setup ==
    /\ st.pc = "start"
    /\ st' = Setup(st)
    /\ UNCHANGED consumer
    /\ StUnchanged

\* lines 185-193: the next position is provided
ST_Provided ==
    /\ st.pc = "loop" /\ LoopCond(st) /\ NextProvided(st)
    /\ st' = [st EXCEPT !.tokens = AppendProvided(st.tokens, st.counter),
                        !.counter = st.counter + 1,
                        !.appended = st.appended + 1]
    /\ UNCHANGED consumer
    /\ StUnchanged

\* fault: the body does not suspend after strategy.forward
StForwardFrame_NoYield(frame) ==
    LET f == Forward(frame)
    IN  IF f.raised # ""
        THEN [frame EXCEPT !.pc = "error", !.err = f.raised,
                           !.calls = frame.calls + 1,
                           !.inv = Append(frame.inv, Invocation(frame))]
        ELSE [frame EXCEPT !.pc = "resumed",
                           !.calls = frame.calls + 1,
                           !.advances = frame.advances + 1,
                           !.inv = Append(frame.inv, Invocation(frame)),
                           !.handed = Append(frame.handed, Handed(frame)),
                           !.tokens = f.tokens,
                           !.mems = f.mems,
                           !.is_done = f.is_done]

\* what lines 195-217 leave of the frame: suspended at the yield
StForwardFrame(frame) ==
    LET f == Forward(frame)
    IN  IF f.raised # ""
        THEN [frame EXCEPT !.pc = "error", !.err = f.raised,
                           !.calls = frame.calls + 1,
                           !.inv = Append(frame.inv, Invocation(frame))]
        ELSE [frame EXCEPT !.pc = "suspended",
                           !.calls = frame.calls + 1,
                           !.advances = frame.advances + 1,
                           !.inv = Append(frame.inv, Invocation(frame)),
                           !.handed = Append(frame.handed, Handed(frame)),
                           !.yields = frame.yields + 1,
                           !.tokens = f.tokens,
                           !.mems = f.mems,
                           !.is_done = f.is_done]

\* lines 195-217: the next position is to be generated; the caller receives
\* (tokens, logits, mems)
ST_Forward ==
    /\ st.pc = "loop" /\ LoopCond(st) /\ ~NextProvided(st)
    /\ st' = StForwardFrame(st)
    /\ consumer' = IF st'.pc = "suspended"
                   THEN [consumer EXCEPT !.got = consumer.got + 1,
                                         !.tokens = st'.tokens,
                                         !.logits = Forward(st).logits,
                                         !.mems = st'.mems]
                   ELSE consumer
    /\ StUnchanged

\* fault: index is left on the column forwarded last
StResumeFrame_Overlap(frame) ==
    [frame EXCEPT !.counter = frame.counter + 1,
                  !.index = frame.counter,
                  !.pc = IF frame.is_done THEN "break" ELSE "loop"]

\* fault: index is set past the column after counter
StResumeFrame_IndexAhead(frame) ==
    [frame EXCEPT !.counter = frame.counter + 1,
                  !.index = frame.counter + 3,
                  !.pc = IF frame.is_done THEN "break" ELSE "loop"]

\* what lines 219-223 leave of the frame
StResumeFrame(frame) ==
    [frame EXCEPT !.counter = frame.counter + 1,
                  !.index = frame.counter + 1,
                  !.pc = IF frame.is_done THEN "break" ELSE "loop"]

\* lines 219-223: the body resumes after the yield
ST_Resume ==
    /\ st.pc = "resumed"
    /\ st' = StResumeFrame(st)
    /\ UNCHANGED consumer
    /\ StUnchanged

\* line 225: the generator returns (StopIteration ends the caller's loop)
ST_Return ==
    /\ \/ st.pc = "loop" /\ ~LoopCond(st)
       \/ st.pc = "break"
    /\ st' = [st EXCEPT !.pc = "exhausted"]
    /\ UNCHANGED consumer
    /\ StUnchanged

StRunning == st.pc \in {"start", "loop", "resumed", "break"}

----------------------------------------------------------------------------
(* get_masks_and_position_ids_glm (examples/glm/inference_glm.py). Matrices  *)
(* are sequences of rows; python index i is element i + 1.                   *)

\* longest seq handed to the builder
MaxGlmLen == 5

\* torch.ones((1, len(seq), len(seq)))
Ones(n) == [i \in 1..n |-> [j \in 1..n |-> 1]]

\* attention_mask.tril_(): the entries above the diagonal become 0
Tril(a) == [i \in 1..Len(a) |-> [j \in 1..Len(a[i]) |->
                IF j <= i THEN a[i][j] ELSE 0]]

\* attention_mask[..., :context_length] = 1
FillContext(a, context_length) ==
    [i \in 1..Len(a) |->
        LET cols == Len(PySlice(a[i], 0, context_length))
        IN  [j \in 1..Len(a[i]) |-> IF j <= cols THEN 1 ELSE a[i][j]]]

\* fault: the context block is not made visible
GlmAttentionMask_Causal(n, context_length) == Tril(Ones(n))

\* lines 36-39
GlmAttentionMask(n, context_length) == FillContext(Tril(Ones(n)), context_length)

\* torch.arange(a, b)
Arange(a, b) == [i \in 1..(b - a) |-> a + i - 1]

\* row[start:] = values, values a sequence of the slice's length
AssignFrom(row, start, values) ==
    [j \in 1..Len(row) |-> IF j <= start THEN row[j] ELSE values[j - start]]

\* fault: the second row counts from 0
GlmPositionIds_FromZero(n, mask_position, context_length) ==
    LET zeros == [j \in 1..n |-> 0]
        row0a == SubSeq(Arange(0, context_length), 1, context_length)
                     \o SubSeq(zeros, context_length + 1, n)
        row0 == AssignFrom(row0a, context_length,
                           [j \in 1..(n - context_length) |-> mask_position])
        row1 == AssignFrom(zeros, context_length, Arange(0, n - context_length))
    IN  <<row0, row1>>

\* lines 41-44
GlmPositionIds(n, mask_position, context_length) ==
    LET zeros == [j \in 1..n |-> 0]
        \* torch.arange(0, context_length, out=position_ids[0, :context_length])
        row0a == SubSeq(Arange(0, context_length), 1, context_length)
                     \o SubSeq(zeros, context_length + 1, n)
        \* position_ids[0, context_length:] = mask_position
        row0 == AssignFrom(row0a, context_length,
                           [j \in 1..(n - context_length) |-> mask_position])
        \* torch.arange(1, len(seq) - context_length + 1,
        \*              out=position_ids[1, context_length:])
        row1 == AssignFrom(zeros, context_length,
                           Arange(1, n - context_length + 1))
    IN  <<row0, row1>>

GlmIdle == [pc |-> "idle", len |-> 0, mask_position |-> 0, context_length |-> 0,
            attention_mask |-> <<>>, position_ids |-> <<>>]

\* the arguments: a sequence of length len, a mask position in it and a
\* context length up to len
GlmCalls ==
    {[pc |-> "called", len |-> n, mask_position |-> mp, context_length |-> c,
      attention_mask |-> <<>>, position_ids |-> <<>>] :
        n \in 1..MaxGlmLen, mp \in 0..(MaxGlmLen - 1), c \in 0..MaxGlmLen}

\* lines 33-47
GLM_Build ==
    /\ glm.pc = "called"
    /\ glm' = [glm EXCEPT
                 !.pc = "returned",
                 !.attention_mask = GlmAttentionMask(glm.len, glm.context_length),
                 !.position_ids = GlmPositionIds(glm.len, glm.mask_position,
                                                 glm.context_length)]
    /\ UNCHANGED <<seq, batch_size, strategy, max_memory_length, mems_arg,
                   num_layers, fs, st, consumer, mc>>

----------------------------------------------------------------------------
(* Specifications *)

\* one call of filling_sequence and one of stream_filling_sequence on the
\* same arguments
Init ==
    /\ seq \in Seqs
    /\ batch_size \in 1..MaxBatch
    /\ strategy \in Strategies
    /\ max_memory_length \in (0..MaxMemLoop) \cup {DefaultMaxMemoryLength}
    /\ num_layers \in 0..MaxLayers
    /\ mems_arg \in SuppliedMems
    /\ fs = Frame0("start")
    /\ st = Frame0("created")
    /\ consumer = Consumer0
    /\ mc = McIdle
    /\ glm = GlmIdle

Next ==
    \/ FS_Setup
    \/ FS_Provided
    \/ FS_Forward
    \/ FS_Finalize
    \/ Pull
    \/ ST_Setup
    \/ ST_Provided
    \/ ST_Forward
    \/ ST_Resume
    \/ ST_Return

Spec == Init /\ [][Next]_vars

\* update_mems applied repeatedly by a caller
MemInit ==
    /\ seq = <<>>
    /\ batch_size = 1
    /\ strategy = [kind |-> "base", num_beams |-> 0, end_tokens |-> {}]
    /\ max_memory_length \in 0..MaxMem
    /\ num_layers \in 1..MaxLayers
    /\ mems_arg = NoneT
    /\ fs = Frame0("idle")
    /\ st = Frame0("idle")
    /\ consumer = Consumer0
    /\ mc = McInit
    /\ glm = GlmIdle

MemNext ==
    \/ McUpdate
    \/ McUpdateNone
    \/ McUpdateEmpty

MemSpec == MemInit /\ [][MemNext]_vars

\* one call of get_masks_and_position_ids_glm
GlmInit ==
    /\ seq = <<>>
    /\ batch_size = 1
    /\ strategy = [kind |-> "base", num_beams |-> 0, end_tokens |-> {}]
    /\ max_memory_length = DefaultMaxMemoryLength
    /\ num_layers = 1
    /\ mems_arg = NoneT
    /\ fs = Frame0("idle")
    /\ st = Frame0("idle")
    /\ consumer = Consumer0
    /\ mc = McIdle
    /\ glm \in {g \in GlmCalls : g.mask_position < g.len
                                  /\ g.context_length <= g.len}

GlmNext == GLM_Build

GlmSpec == GlmInit /\ [][GlmNext]_vars

----------------------------------------------------------------------------
(* Properties of update_mems (checked under MemSpec) *)

\* the last n elements of s
LastN(s, n) == SubSeq(s, Len(s) - n + 1, Len(s))

\* the last call was update_mems on a non-empty list of activations, and returned
McMerged == mc.n >= 1 /\ ~mc.hiddens.none /\ mc.hiddens.layers > 0
            /\ mc.ret.raised = ""

\* C1: after any number of update_mems calls, each result fed back as the
\* previous memory, the returned memory is never longer than
\* max_memory_length (any max_memory_length >= 0, any chunk length >= 1).
C1_MemoryNeverExceedsMax ==
    McMerged => Len(mc.ret.value.cols) <= max_memory_length

\* C2: update_mems returns exactly the most recent
\* min(max_memory_length, previous_length + query_length) columns of previous
\* memory followed by the new chunk, in order: the tail of the new chunk alone
\* when that length is <= query_length, else the last
\* (new_length - query_length) columns of previous memory followed by all of the
\* new chunk; the newest column is never dropped.
C2_MostRecentColumns ==
    McMerged =>
        LET q == Len(mc.hiddens.cols)
            n == Min(max_memory_length, Len(mc.prev.cols) + q)
            got == mc.ret.value.cols
        IN  /\ got = LastN(mc.prev.cols \o mc.hiddens.cols, n)
            /\ n <= q => got = LastN(mc.hiddens.cols, n)
            /\ n > q => got = LastN(mc.prev.cols, n - q) \o mc.hiddens.cols
            /\ got # <<>> /\ Last(got) = Last(mc.hiddens.cols)

\* C9: when the new activations are None or an empty list, update_mems returns
\* the previous memory unchanged, also when the previous memory is not empty.
C9_EmptyActivationsKeepMemory ==
    (mc.n >= 1 /\ (mc.hiddens.none \/ mc.hiddens.layers = 0)) =>
        mc.ret.raised = "" /\ mc.ret.value = mc.prev

----------------------------------------------------------------------------
(* Properties of the filling loop (checked under Spec) *)

\* every entry after the context is pending
TrailingPending(c) == \A i \in (c + 1)..Len(seq) : seq[i] < 0

\* the frame is inside or past the loop
InLoop(frame) == frame.pc \in {"loop", "break", "finalized"}

\* the strategy did not report completion before the last position was filled
NotDoneEarly(frame) == ~frame.is_done \/ frame.counter = Len(seq) - 1

\* C3: for a sequence with context length C >= 1 whose entries after the
\* context are all pending, and a strategy that does not complete early,
\* filling_sequence has invoked the model, and the strategy's forward, exactly
\* len(seq) - C times when it calls finalize (one invocation per position
\* filled on the way there).
C3_OneModelCallPerPendingPosition ==
    (InLoop(fs) /\ TrailingPending(fs.context_length)) =>
        /\ fs.context_length >= 1
        /\ fs.calls = fs.counter + 1 - fs.context_length
        /\ fs.advances = fs.calls
        /\ (fs.pc = "finalized" /\ NotDoneEarly(fs)) =>
               /\ fs.calls = Len(seq) - fs.context_length
               /\ fs.advances = Len(seq) - fs.context_length

C3_Witness ==
    /\ fs.pc = "finalized" /\ TrailingPending(fs.context_length)
    /\ ~fs.is_done
    /\ Len(seq) - fs.context_length >= 2
    /\ fs.calls = Len(seq) - fs.context_length

\* the step appends a provided token in the frame
ProvidedStep(frame, frame2) ==
    frame.pc = "loop" /\ LoopCond(frame) /\ NextProvided(frame) /\ frame2 # frame

\* the step made no model call and no strategy call, and appended seq[counter+1]
\* to every row
AppendedVerbatim(frame, frame2) ==
    /\ frame2.calls = frame.calls /\ frame2.advances = frame.advances
    /\ frame2.counter = frame.counter + 1
    /\ Len(frame2.tokens) = Len(frame.tokens)
    /\ \A r \in 1..Len(frame.tokens) :
           frame2.tokens[r] = Append(frame.tokens[r], seq[frame.counter + 2])

\* every provided position held by the token batch holds the value of seq
ProvidedKept(tokens) ==
    \A r \in 1..Len(tokens) : \A p \in 1..Len(tokens[r]) :
        seq[p] >= 0 => tokens[r][p] = seq[p]

\* C4: for any mix of provided and pending entries, a loop iteration whose next
\* position is provided makes no model call and no strategy call and appends
\* exactly that value to every row of the token batch (both variants); in the
\* token batch, and so in the tokens handed to finalize, every provided
\* position holds the value of seq in every row.
C4_ProvidedAppendedVerbatim ==
    /\ [][ProvidedStep(fs, fs') => AppendedVerbatim(fs, fs')]_vars
    /\ [][ProvidedStep(st, st') => AppendedVerbatim(st, st')]_vars
    /\ [](ProvidedKept(fs.tokens) /\ ProvidedKept(st.tokens))
    /\ [](fs.pc = "finalized" => ProvidedKept(fs.final_tokens))

C4_Witness ==
    /\ fs.pc = "finalized" /\ fs.appended >= 1 /\ fs.calls >= 1
    /\ Len(fs.final_tokens) >= 2
    /\ \E p \in (fs.context_length + 1)..Len(seq) :
           seq[p] >= 0 /\ fs.final_tokens[2][p] = seq[p]
    /\ st.appended >= 1

\* C5: for a sequence with no pending entry, filling_sequence completes without
\* error: the context scan stops at len(seq), the model is never called, and
\* finalize receives the sequence unchanged.
C5_FullyProvidedCompletes ==
    (Len(seq) >= 1 /\ AllProvided(seq) /\ fs.pc # "start") =>
        /\ fs.pc # "error"
        /\ fs.context_length = Len(seq)
        /\ fs.calls = 0
        /\ fs.pc = "finalized" => fs.final_tokens = <<seq>>

\* once is_done is set, the frame's calls, token batch and memory stay as they are
FrozenOnceDone(frame, frame2) ==
    frame.is_done =>
        /\ frame2.calls = frame.calls /\ frame2.advances = frame.advances
        /\ frame2.appended = frame.appended
        /\ frame2.tokens = frame.tokens /\ frame2.mems = frame.mems
        /\ frame2.is_done

\* C6: once the strategy reports completion after a forward, the loop makes no
\* further model call, no further strategy call and appends no further token,
\* whatever positions remain (both variants), and filling_sequence calls
\* finalize exactly once, with the tokens and memory that forward returned. For
\* [5, 7, -1, -1], end token 9 and first-ranked tokens 8 then 9 the loop ends
\* after 2 model calls with [5, 7, 8, 9].
C6_CompletionEndsLoop ==
    /\ [][FrozenOnceDone(fs, fs')]_vars
    /\ [][FrozenOnceDone(st, st')]_vars
    /\ [](fs.is_done => fs.pc \in {"break", "finalized"})
    /\ [](st.is_done => st.pc \in {"suspended", "resumed", "break", "exhausted"})
    /\ [](/\ fs.finalize_calls = (IF fs.pc = "finalized" THEN 1 ELSE 0)
          /\ fs.pc = "finalized" =>
                 fs.final_tokens = fs.tokens /\ fs.final_mems = fs.mems)
    /\ []((/\ seq = <<5, 7, Pending, Pending>>
           /\ strategy = [kind |-> "base", num_beams |-> 0, end_tokens |-> {TokB}]
           /\ fs.pc = "finalized") =>
              /\ fs.calls = 2
              /\ \A r \in 1..Len(fs.final_tokens) :
                     fs.final_tokens[r] = <<5, 7, TokA, TokB>>)

C6_Witness ==
    /\ fs.pc = "finalized" /\ fs.is_done
    /\ fs.counter < Len(seq) - 1
    /\ st.pc = "exhausted" /\ st.is_done /\ st.counter < Len(seq) - 1

\* C7: pulled to exhaustion on the same arguments, the tokens and memory of the
\* last state stream_filling_sequence yields equal the tokens and memory
\* filling_sequence passes to strategy.finalize.
C7_LastYieldEqualsFinalizeArguments ==
    (fs.pc = "finalized" /\ st.pc = "exhausted") =>
        consumer.tokens = fs.final_tokens /\ consumer.mems = fs.final_mems

\* C8: the generator suspends only right after the strategy's forward of a
\* model-invoking iteration. Every model call is followed by one yield before
\* any other model call (unless that iteration raises); an iteration that
\* appends a provided token does not yield; the k-th model call happens only
\* after the caller asked for the k-th value, none before the first; while the
\* caller does not ask, no model or strategy call is made.
C8_SuspendsOnlyAfterForward ==
    /\ [](st.calls <= consumer.pulls)
    /\ [](consumer.pulls = 0 => st.pc = "created" /\ st.advances = 0)
    /\ [](/\ st.yields <= st.calls /\ st.calls <= st.yields + 1
          /\ st.calls = st.yields + 1 => st.pc = "error")
    /\ [](st.advances = st.yields /\ consumer.got = st.yields)
    /\ [](st.pc = "suspended" <=> consumer.pulls = st.yields /\ st.yields > 0)
    /\ [][st'.appended # st.appended =>
              st'.yields = st.yields /\ st'.pc # "suspended"]_vars
    /\ [][st'.yields # st.yields =>
              /\ st'.yields = st.yields + 1
              /\ st'.calls = st.calls + 1 /\ st'.advances = st.advances + 1
              /\ st'.pc = "suspended"]_vars
    /\ [][~StRunning =>
              st'.calls = st.calls /\ st'.advances = st.advances]_vars

C8_Witness ==
    /\ st.pc = "suspended" /\ st.yields >= 2 /\ st.appended >= 1
    /\ consumer.pulls = 2

\* C10: a sequence whose first entry is pending is rejected with a fatal error
\* by both variants before any model call, strategy forward or finalize.
C10_PendingFirstEntryRejected ==
    (Len(seq) >= 1 /\ seq[1] < 0) =>
        /\ fs.pc \in {"start", "error"}
        /\ fs.pc = "error" => fs.err = "AssertionError"
        /\ fs.calls = 0 /\ fs.advances = 0 /\ fs.finalize_calls = 0
        /\ st.pc \in {"created", "start", "error"}
        /\ st.pc = "error" => st.err = "AssertionError"
        /\ st.calls = 0 /\ st.advances = 0 /\ st.yields = 0

C10_Witness ==
    /\ Len(seq) >= 2 /\ seq[1] < 0 /\ seq[2] >= 0
    /\ fs.pc = "error" /\ st.pc = "error"

----------------------------------------------------------------------------
(* Properties of the loop's memory and forwarding schedule (under Spec) *)

RECURSIVE ForwardedColumns(_)
\* the number of columns forwarded by the invocations inv
ForwardedColumns(inv) ==
    IF inv = <<>> THEN 0
    ELSE inv[Len(inv)].input_width + ForwardedColumns(SubSeq(inv, 1, Len(inv) - 1))

\* every model invocation of the frame was followed by its merge
AllMerged(frame) == frame.calls >= 1 /\ frame.advances = frame.calls

NoLossBelowCapacity(frame) ==
    (mems_arg.none /\ AllMerged(frame)
        /\ ForwardedColumns(frame.inv) < max_memory_length) =>
            /\ ~frame.mems.none
            /\ Len(frame.mems.cols) = ForwardedColumns(frame.inv)

\* C11: started without supplied memory, as long as the cumulative number of
\* columns forwarded to the model is below max_memory_length, the memory length
\* after every merge equals that number (both variants).
C11_NoLossBelowCapacity == NoLossBelowCapacity(fs) /\ NoLossBelowCapacity(st)

C11_Witness ==
    /\ mems_arg.none /\ fs.calls >= 2 /\ fs.advances = fs.calls
    /\ fs.appended >= 1
    /\ ForwardedColumns(fs.inv) = 3
    /\ ForwardedColumns(fs.inv) < max_memory_length
    /\ Len(fs.mems.cols) = 3

----------------------------------------------------------------------------
(* Properties of get_masks_and_position_ids_glm (under GlmSpec) *)

\* python indices of the sequence
GlmIdx == 0..(glm.len - 1)

\* C12: in the attention mask of the masked-infill builder, row i may attend to
\* column j exactly when j <= i or j < context_length; for a sequence of length
\* 3 with context length 3, row 1 attends to columns 0 and 2.
C12_GlmMaskCausalPlusContext ==
    glm.pc = "returned" =>
        /\ Len(glm.attention_mask) = glm.len
        /\ \A i \in GlmIdx : Len(glm.attention_mask[i + 1]) = glm.len
        /\ \A i \in GlmIdx, j \in GlmIdx :
               (glm.attention_mask[i + 1][j + 1] = 1)
                   <=> (j <= i \/ j < glm.context_length)
        /\ \A i \in GlmIdx, j \in GlmIdx : glm.attention_mask[i + 1][j + 1] \in {0, 1}
        /\ (glm.len = 3 /\ glm.context_length = 3) =>
               glm.attention_mask[2][1] = 1 /\ glm.attention_mask[2][3] = 1

C12_Witness ==
    /\ glm.pc = "returned" /\ glm.len = 4 /\ glm.context_length = 2
    /\ glm.attention_mask[1][2] = 1   \* above the diagonal, in the context
    /\ glm.attention_mask[1][3] = 0   \* above the diagonal, generated
    /\ glm.attention_mask[4][3] = 1   \* below the diagonal

\* C17: the position ids of the masked-infill builder, for length L and context
\* length C: row 0 is 0..C-1 on the context and the mask position on every
\* generated position; row 1 is 0 on the context and 1, 2, ..., L-C on the
\* generated positions.
C17_GlmPositionIds ==
    glm.pc = "returned" =>
        /\ Len(glm.position_ids) = 2
        /\ Len(glm.position_ids[1]) = glm.len /\ Len(glm.position_ids[2]) = glm.len
        /\ \A p \in GlmIdx :
               IF p < glm.context_length
               THEN glm.position_ids[1][p + 1] = p /\ glm.position_ids[2][p + 1] = 0
               ELSE /\ glm.position_ids[1][p + 1] = glm.mask_position
                    /\ glm.position_ids[2][p + 1] = p - glm.context_length + 1

C17_Witness ==
    /\ glm.pc = "returned" /\ glm.len = 5 /\ glm.context_length = 2
    /\ glm.mask_position = 1
    /\ glm.position_ids = << <<0, 1, 1, 1, 1>>, <<0, 0, 1, 2, 3>> >>

----------------------------------------------------------------------------
(* Properties of the loop's bookkeeping (under Spec) *)

\* the lines before the loop ended without raising
LoopEntered(frame) == frame.context_length > 0

\* max(batch_size, num_beams), num_beams counting only if the strategy has one
EffectiveBatch ==
    IF strategy.kind = "beam" THEN Max(batch_size, strategy.num_beams)
    ELSE batch_size

BatchContract(frame) ==
    LoopEntered(frame) =>
        /\ frame.batch_size = EffectiveBatch
        /\ (strategy.kind # "beam" \/ batch_size >= strategy.num_beams)
               => frame.batch_size = batch_size
        /\ \A k \in 1..Len(frame.handed) :
               /\ frame.handed[k].logits = EffectiveBatch
               /\ frame.handed[k].tokens = EffectiveBatch
        \* widening the batch raises nothing: expand() and cat() accept the rows
        /\ (strategy.kind = "beam" /\ strategy.num_beams > batch_size
                /\ num_layers >= 1) => frame.err # "RuntimeError"

\* C13: a strategy whose num_beams exceeds batch_size does not make the call
\* fail: batch_size becomes num_beams, and every strategy.forward is handed
\* logits and tokens of exactly max(batch_size, num_beams) rows; with
\* batch_size >= num_beams, or no num_beams, batch_size is left unchanged.
C13_BatchWidenedToBeams == BatchContract(fs) /\ BatchContract(st)

C13_Witness ==
    /\ strategy.kind = "beam" /\ batch_size < strategy.num_beams
    /\ fs.pc = "finalized" /\ Len(fs.handed) >= 2
    /\ fs.handed[2].tokens = strategy.num_beams
    /\ Len(fs.final_tokens) = strategy.num_beams

IndexIsMemoryLength(frame) ==
    \A k \in 1..Len(frame.inv) :
        /\ frame.inv[k].index = frame.inv[k].memory_length
        /\ frame.inv[k].mask_cols
               = frame.inv[k].memory_length + frame.inv[k].input_width

\* C14: at every model invocation index equals the length of the current
\* memory, so the width counter + 1 of the attention-mask slice equals the
\* memory length plus the number of forwarded columns, for every
\* max_memory_length and also when resuming from supplied memory.
C14_IndexIsMemoryLength == IndexIsMemoryLength(fs) /\ IndexIsMemoryLength(st)

IndexCounterBound(frame) ==
    LoopEntered(frame) =>
        frame.index <= frame.counter + 1 /\ frame.counter + 1 <= Len(seq)

\* the supplied memory is a prefix of the context (the docstring of
\* filling_sequence: "should be first mems.shape[1] parts of context_tokens")
MemsWithinContext(frame) ==
    mems_arg.none \/ Len(mems_arg.cols) <= frame.context_length

\* C15 as stated: in every state of the loop, index <= counter + 1 <= len(seq),
\* whatever the length of the supplied memory.
C15_IndexCounterBound == IndexCounterBound(fs) /\ IndexCounterBound(st)

\* C15: in every state of the loop, index <= counter + 1 <= len(seq), when no
\* memory is supplied or the supplied memory is no longer than the context.
C15_IndexCounterBoundWithinContext ==
    /\ MemsWithinContext(fs) => IndexCounterBound(fs)
    /\ MemsWithinContext(st) => IndexCounterBound(st)

C15_Witness ==
    /\ ~mems_arg.none /\ Len(mems_arg.cols) = 1
    /\ st.context_length = 2 /\ st.pc = "loop" /\ st.calls >= 1
    /\ st.index = st.counter /\ st.counter + 1 < Len(seq)

\* the invocations of frame that forwarded position p
ForwardedBy(frame, p) ==
    {k \in 1..Len(frame.inv) :
        frame.inv[k].index <= p /\ p < frame.inv[k].index + frame.inv[k].input_width}

\* the ranges [index, counter] start at 0, each starts where the one before
\* ended, and none is empty
RangesContiguous(frame) ==
    \A k \in 1..Len(frame.inv) :
        /\ frame.inv[k].input_width >= 1
        /\ frame.inv[k].index + frame.inv[k].input_width = frame.inv[k].counter + 1
        /\ frame.inv[k].index =
               IF k = 1 THEN 0
               ELSE frame.inv[k - 1].index + frame.inv[k - 1].input_width

\* the call ended: finalize was called, or the generator returned
Ended(frame) == frame.pc \in {"finalized", "exhausted"}

\* the positions committed to the token buffer
Committed(frame) == 0..(Len(frame.tokens[1]) - 1)

\* C16 as stated: in a call started without supplied memory the forwarded
\* ranges are contiguous, non-overlapping and increasing, and every committed
\* position has been forwarded exactly once when the call ends.
C16_EveryCommittedForwardedOnce ==
    \A frame \in {fs, st} :
        mems_arg.none =>
            /\ RangesContiguous(frame)
            /\ Ended(frame) => \A p \in Committed(frame) :
                                   Cardinality(ForwardedBy(frame, p)) = 1

\* C16: in a call started without supplied memory the forwarded ranges are
\* contiguous, non-overlapping and increasing; every position up to the last
\* forwarded one has been forwarded exactly once, no position twice, and the
\* committed positions after the last forwarded one (the last generated token and
\* the provided tokens after it) have not been forwarded at all.
C16_ForwardedRangesPartitionPrefix ==
    \A frame \in {fs, st} :
        (mems_arg.none /\ LoopEntered(frame)) =>
            /\ RangesContiguous(frame)
            /\ \A p \in Committed(frame) :
                   Cardinality(ForwardedBy(frame, p)) =
                       IF frame.inv # <<>> /\ p <= frame.inv[Len(frame.inv)].counter
                       THEN 1 ELSE 0

C16_Witness ==
    /\ mems_arg.none /\ st.pc = "exhausted"
    /\ Len(st.inv) = 2 /\ st.appended >= 1
    /\ st.inv[1].input_width = 1 /\ st.inv[2].index = 1 /\ st.inv[2].input_width = 2
    /\ ForwardedBy(st, 3) = {}

\* C18 on finite runs: with a first entry that is not pending (context length
\* >= 1) neither call ends in an exception, the only way for a call of a loop
\* whose counter rises on every iteration not to reach finalize or its return.
C18_NeverEndsBeforeFinalize ==
    (seq # <<>> /\ seq[1] >= 0) => fs.pc # "error" /\ st.pc # "error"

LoopHead(frame) == frame.pc = "loop"

BufferWidth(frame) ==
    LoopHead(frame) => \A r \in 1..Len(frame.tokens) :
                           Len(frame.tokens[r]) = frame.counter + 1

SlicesAgree(frame) ==
    \A k \in 1..Len(frame.inv) :
        /\ frame.inv[k].input_width = frame.inv[k].position_width
        /\ frame.inv[k].input_width = frame.inv[k].mask_rows

\* C19 as stated: at every loop head the token buffer has counter + 1 columns,
\* and at every model invocation the token slice, the position-id slice and
\* the attention-mask row slice all have width counter + 1 - index.
C19_SliceWidths ==
    \A frame \in {fs, st} :
        /\ BufferWidth(frame)
        /\ SlicesAgree(frame)
        /\ \A k \in 1..Len(frame.inv) :
               frame.inv[k].input_width
                   = frame.inv[k].counter + 1 - frame.inv[k].index

\* C19: at every loop head the token buffer has counter + 1 columns, and at
\* every model invocation the token slice, the position-id slice and the
\* attention-mask row slice have the same width: counter + 1 - index, or 0 when
\* index is past counter + 1 (supplied memory longer than the context).
C19_SliceWidthsClipped ==
    \A frame \in {fs, st} :
        /\ BufferWidth(frame)
        /\ SlicesAgree(frame)
        /\ \A k \in 1..Len(frame.inv) :
               frame.inv[k].input_width
                   = Max(frame.inv[k].counter + 1 - frame.inv[k].index, 0)

C19_Witness ==
    /\ fs.pc = "loop" /\ fs.appended >= 1 /\ Len(fs.inv) = 2
    /\ fs.inv[2].input_width = 2 /\ fs.inv[2].position_width = 2
    /\ fs.inv[2].mask_rows = 2
    /\ Len(fs.tokens[1]) = 4 /\ fs.counter = 3

\* C20: every model invocation of the loop forwards at least one column
\* (index <= counter at the call), also when the call resumes from supplied
\* memory as long as the context or longer.
C20_ForwardsAtLeastOneColumn ==
    \A frame \in {fs, st} : \A k \in 1..Len(frame.inv) :
        /\ frame.inv[k].input_width >= 1
        /\ frame.inv[k].index <= frame.inv[k].counter

====
